---------------------------- MODULE Spec2Model ----------------------------
(***************************************************************************)
(* A model of YouTubeAnalyzer (src/youtube_analysis.py): the data-cleaning *)
(* pipeline of load_data (column renaming, numeric coercion, duration      *)
(* parsing, filtering, derived metrics, length buckets), the aggregation   *)
(* steps and the sequencing guards of the reporting steps.                 *)
(*                                                                         *)
(* Strings that the code inspects character by character (durations,      *)
(* column names, numeric text) are sequences of one-character strings.     *)
(* Floats are exact decimals held as an integer number of hundredths.      *)
(***************************************************************************)
EXTENDS Integers, Sequences, FiniteSets, TLC

(***************************************************************************)
(* Bounds of the model.                                                    *)
(***************************************************************************)
\* longest string of the free family of duration inputs
MaxLen == 3
\* most colon-separated parts of a duration input
MaxParts == 4
\* most <N><letter> components after "PT" of a duration input
MaxComponents == 2
\* largest numeric duration input, in seconds
MaxNum == 100
\* largest duration_minutes fed to the bucketing, in hundredths of a minute
MaxMinutes100 == 3100
\* largest duration in seconds fed to the derived-metric calculator
MaxSeconds == 1900
\* most raw columns of a generated header
MaxCols == 3
\* most rows of a generated record set
MaxRows == 2

(***************************************************************************)
(* Characters and Python's string primitives.                              *)
(***************************************************************************)
Digits == {"0", "1", "2", "3", "4", "5", "6", "7", "8", "9"}

DigitVal(c) ==
  CASE c = "0" -> 0 [] c = "1" -> 1 [] c = "2" -> 2 [] c = "3" -> 3
    [] c = "4" -> 4 [] c = "5" -> 5 [] c = "6" -> 6 [] c = "7" -> 7
    [] c = "8" -> 8 [] c = "9" -> 9

Whitespace == {" "}

\* str.lower() on one character
LowerChar(c) ==
  CASE c = "A" -> "a" [] c = "B" -> "b" [] c = "C" -> "c" [] c = "D" -> "d"
    [] c = "E" -> "e" [] c = "F" -> "f" [] c = "G" -> "g" [] c = "H" -> "h"
    [] c = "I" -> "i" [] c = "J" -> "j" [] c = "K" -> "k" [] c = "L" -> "l"
    [] c = "M" -> "m" [] c = "N" -> "n" [] c = "O" -> "o" [] c = "P" -> "p"
    [] c = "Q" -> "q" [] c = "R" -> "r" [] c = "S" -> "s" [] c = "T" -> "t"
    [] c = "U" -> "u" [] c = "V" -> "v" [] c = "W" -> "w" [] c = "X" -> "x"
    [] c = "Y" -> "y" [] c = "Z" -> "z" [] OTHER -> c

\* str.lower()
Lower(s) == [i \in 1..Len(s) |-> LowerChar(s[i])]

RECURSIVE LStrip(_)
LStrip(s) == IF s # <<>> /\ Head(s) \in Whitespace THEN LStrip(Tail(s)) ELSE s

RECURSIVE RStrip(_)
RStrip(s) ==
  IF s # <<>> /\ s[Len(s)] \in Whitespace
  THEN RStrip(SubSeq(s, 1, Len(s) - 1))
  ELSE s

\* str.strip()
Strip(s) == RStrip(LStrip(s))

\* str.split(sep) for a one-character separator: always at least one part
RECURSIVE Split(_, _)
Split(s, sep) ==
  IF \E i \in 1..Len(s) : s[i] = sep
  THEN LET i == CHOOSE k \in 1..Len(s) :
                  s[k] = sep /\ \A j \in 1..(k - 1) : s[j] # sep
       IN <<SubSeq(s, 1, i - 1)>> \o Split(SubSeq(s, i + 1, Len(s)), sep)
  ELSE <<s>>

\* the value of a run of decimal digits
RECURSIVE DigitsValue(_)
DigitsValue(s) ==
  IF s = <<>> THEN 0
  ELSE 10 * DigitsValue(SubSeq(s, 1, Len(s) - 1)) + DigitVal(s[Len(s)])

AllDigits(s) == s # <<>> /\ \A i \in 1..Len(s) : s[i] \in Digits

\* the longest run of digits of s that starts at position p
RECURSIVE DigitRun(_, _)
DigitRun(s, p) ==
  IF p <= Len(s) /\ s[p] \in Digits THEN <<s[p]>> \o DigitRun(s, p + 1) ELSE <<>>

(***************************************************************************)
(* Python's int(str) and float(str), for the characters of the model:     *)
(* surrounding whitespace, an optional sign, decimal digits, a fraction.   *)
(* A result is [ok, v]; float results carry the value truncated toward    *)
(* zero and whether it is finite.                                          *)
(***************************************************************************)
Unsigned(s) == IF s # <<>> /\ Head(s) \in {"+", "-"} THEN Tail(s) ELSE s

Negative(s) == s # <<>> /\ Head(s) = "-"

IntLiteral(t, u) ==
  IF AllDigits(u)
  THEN [ok |-> TRUE, v |-> IF Negative(t) THEN 0 - DigitsValue(u) ELSE DigitsValue(u)]
  ELSE [ok |-> FALSE, v |-> 0]

IntStripped(t) == IntLiteral(t, Unsigned(t))

\* int(p): ValueError (ok = FALSE) unless p is an integer literal
PyInt(p) == IntStripped(Strip(p))

\* the spellings float() reads as infinity or as not-a-number
NonFiniteWords ==
  {<<"i", "n", "f">>, <<"i", "n", "f", "i", "n", "i", "t", "y">>, <<"n", "a", "n">>}

\* the value of sign, integer digits ip and remainder rest (a fraction, or nothing)
FloatLiteral(neg, ip, rest) ==
  LET fp == IF rest # <<>> /\ Head(rest) = "." THEN Tail(rest) ELSE <<>>
      wellFormed ==
        \/ ip # <<>> /\ rest = <<>>
        \/ /\ rest # <<>> /\ Head(rest) = "."
           /\ \A i \in 1..Len(fp) : fp[i] \in Digits
           /\ (ip # <<>> \/ fp # <<>>)
      f1 == IF Len(fp) >= 1 THEN DigitVal(fp[1]) ELSE 0
      f2 == IF Len(fp) >= 2 THEN DigitVal(fp[2]) ELSE 0
  IN IF wellFormed
     THEN [ok |-> TRUE, finite |-> TRUE,
           v |-> IF neg THEN 0 - DigitsValue(ip) ELSE DigitsValue(ip),
           h |-> IF neg THEN 0 - (DigitsValue(ip) * 100 + f1 * 10 + f2)
                 ELSE DigitsValue(ip) * 100 + f1 * 10 + f2]
     ELSE [ok |-> FALSE, finite |-> FALSE, v |-> 0, h |-> 0]

FloatDigits(neg, u, ip) == FloatLiteral(neg, ip, SubSeq(u, Len(ip) + 1, Len(u)))

FloatUnsigned(neg, u, word) ==
  IF word \in NonFiniteWords
  THEN [ok |-> TRUE, finite |-> FALSE, v |-> 0,
        h |-> IF word = <<"n", "a", "n">> THEN 0 ELSE IF neg THEN 0 - 1 ELSE 1]
  ELSE FloatDigits(neg, u, DigitRun(u, 1))

FloatStripped(t, u) == FloatUnsigned(Negative(t), u, Lower(u))

FloatOf(t) == FloatStripped(t, Unsigned(t))

\* float(s): [ok, finite, v, h] with v = the value truncated toward zero and
\* h = the value in hundredths (exact for at most two fraction digits);
\* finite = FALSE with h = 0 is not-a-number, with h # 0 an infinity of that sign
PyFloat(s) == FloatOf(Strip(s))

(***************************************************************************)
(* Values of a DataFrame cell: missing (NaN/None), an integer, a float in  *)
(* hundredths, an infinite float, a string, or a category label.           *)
(***************************************************************************)
NaN == [t |-> "nan", v |-> 0, s |-> <<>>]
IntCell(n) == [t |-> "int", v |-> n, s |-> <<>>]
FloatCell(h) == [t |-> "float", v |-> h, s |-> <<>>]
InfCell == [t |-> "inf", v |-> 1, s |-> <<>>]
NegInfCell == [t |-> "inf", v |-> 0 - 1, s |-> <<>>]
StrCell(s) == [t |-> "str", v |-> 0, s |-> s]

\* int(x) of a finite number held in hundredths: truncation toward zero
TruncHundredths(h) == IF h >= 0 THEN h \div 100 ELSE 0 - ((0 - h) \div 100)

(***************************************************************************)
(* _parse_duration.  The result is [raised, value]: raised names the       *)
(* exception that leaves the function, "" when it returns value.           *)
(***************************************************************************)
Returns(n) == [raised |-> "", value |-> n]
Raises(e) == [raised |-> e, value |-> 0]

\* one optional group (?:(\d+)<letter>)? of the pattern, tried at position p
GroupAt(s, p, letter, run) ==
  IF run # <<>> /\ p + Len(run) <= Len(s) /\ s[p + Len(run)] = letter
  THEN [val |-> DigitsValue(run), next |-> p + Len(run) + 1]
  ELSE [val |-> 0, next |-> p]

ReGroup(s, p, letter) == GroupAt(s, p, letter, DigitRun(s, p))

MatchSeconds(h, m, sec) ==
  [matched |-> TRUE, hours |-> h.val, minutes |-> m.val, seconds |-> sec.val]

MatchMinutes(s, h, m) == MatchSeconds(h, m, ReGroup(s, m.next, "S"))

MatchHours(s, h) == MatchMinutes(s, h, ReGroup(s, h.next, "M"))

\* re.match(r'PT(?:(\d+)H)?(?:(\d+)M)?(?:(\d+)S)?', s): a match at the start of s
ReMatchPT(s) ==
  IF Len(s) >= 2 /\ s[1] = "P" /\ s[2] = "T"
  THEN MatchHours(s, ReGroup(s, 3, "H"))
  ELSE [matched |-> FALSE, hours |-> 0, minutes |-> 0, seconds |-> 0]

\* parts = [int(p) for p in parts]
IntParts(raw) == [i \in 1..Len(raw) |-> PyInt(raw[i])]

\* the value of the parts, by their number
ColonValue(parts) ==
  IF \E i \in 1..Len(parts) : ~parts[i].ok
  THEN Raises("ValueError")
  ELSE IF Len(parts) = 3
  THEN Returns(parts[1].v * 3600 + parts[2].v * 60 + parts[3].v)
  ELSE IF Len(parts) = 2
  THEN Returns(parts[1].v * 60 + parts[2].v)
  ELSE Returns(parts[1].v)

\* the branch for a string that contains ':'
ParseColon(duration_str) == ColonValue(IntParts(Split(duration_str, ":")))

\* a variant that counts the minutes group as seconds
TokenValueMinutesAsSeconds(match, f) ==
  IF match.matched
  THEN Returns(match.hours * 3600 + match.minutes + match.seconds)
  ELSE IF f.ok /\ f.finite THEN Returns(f.v) ELSE Returns(0)

\* the value of a string without ':', from its match and its float() reading
TokenValue(match, f) ==
  IF match.matched
  THEN Returns(match.hours * 3600 + match.minutes * 60 + match.seconds)
  ELSE IF f.ok /\ f.finite THEN Returns(f.v) ELSE Returns(0)

\* the branches for a string without ':'
ParseToken(duration_str) == TokenValue(ReMatchPT(duration_str), PyFloat(duration_str))

ParseString(duration_str) ==
  IF \E i \in 1..Len(duration_str) : duration_str[i] = ":"
  THEN ParseColon(duration_str)
  ELSE ParseToken(duration_str)

ParseDuration(duration) ==
  IF duration.t = "nan" THEN Returns(0)
  ELSE IF duration.t = "int" THEN Returns(duration.v)
  ELSE IF duration.t = "float" THEN Returns(TruncHundredths(duration.v))
  ELSE IF duration.t = "inf" THEN Raises("OverflowError")
  ELSE ParseString(Strip(duration.s))

(***************************************************************************)
(* Duration inputs.                                                        *)
(***************************************************************************)
RECURSIVE Join(_, _)
Join(parts, sep) ==
  IF Len(parts) = 0 THEN <<>>
  ELSE IF Len(parts) = 1 THEN parts[1]
  ELSE parts[1] \o sep \o Join(Tail(parts), sep)

RECURSIVE Concat(_)
Concat(parts) == IF parts = <<>> THEN <<>> ELSE Head(parts) \o Concat(Tail(parts))

SeqsUpTo(S, lo, hi) == UNION {[1..n -> S] : n \in lo..hi}

Alphabet == {"P", "T", "1", "5", "M", ".", " ", "x", "-"}

PartSet ==
  {<<>>, <<"0">>, <<"1">>, <<"0", "2">>, <<" ", "3">>, <<"x">>, <<"1", ".", "5">>,
   <<"-", "1">>}

ComponentSet ==
  {n \o <<l>> : n \in {<<>>, <<"1">>, <<"2", "0">>}, l \in {"H", "M", "S", "x"}}

FreeStrings == SeqsUpTo(Alphabet, 0, MaxLen)

ColonStrings == {Join(ps, <<":">>) : ps \in SeqsUpTo(PartSet, 2, MaxParts)}

PTStrings == {<<"P", "T">> \o Concat(cs) : cs \in SeqsUpTo(ComponentSet, 0, MaxComponents)}

NamedStrings ==
  {<<"0", "1", ":", "0", "2", ":", "0", "3">>,
   <<"0", "2", ":", "0", "3">>,
   <<"0", "0", ":", "0", "4", ":", "0", "0">>,
   <<"P", "T", "1", "H", "2", "M", "3", "S">>,
   <<"P", "T", "5", "M">>,
   <<"P", "T", "2", "0", "M">>,
   <<" ", "P", "T", "5", "M", " ">>,
   <<"p", "t", "5", "m">>,
   <<"9", "0">>, <<"9", "0", ".", "7">>, <<"-", "9", "0", ".", "7">>, <<".", "5">>,
   <<"i", "n", "f">>, <<"n", "a", "n">>, <<"a", "b", "c">>}

DurationInputs ==
  {NaN, InfCell, NegInfCell}
    \cup {IntCell(n) : n \in (0 - 2)..MaxNum}
    \cup {FloatCell(h) : h \in {0 - 9070, 0 - 50, 50, 250, 9070}}
    \cup {StrCell(s) : s \in FreeStrings \cup ColonStrings \cup PTStrings \cup NamedStrings}


(***************************************************************************)
(* Arithmetic of the derived fields: round half to even of num/den, den>0  *)
(* (numpy's rounding, on exact quotients).                                 *)
(***************************************************************************)
FloorDiv(num, den) ==
  IF num >= 0 THEN num \div den ELSE 0 - (((0 - num) + den - 1) \div den)

RoundFrom(q, twice_r, den) ==
  IF twice_r < den THEN q
  ELSE IF twice_r > den THEN q + 1
  ELSE IF q % 2 = 0 THEN q ELSE q + 1

RoundQuotient(num, den, q) == RoundFrom(q, 2 * (num - q * den), den)

RoundHalfEven(num, den) == RoundQuotient(num, den, FloorDiv(num, den))

(***************************************************************************)
(* Column names.                                                           *)
(***************************************************************************)
TITLE == <<"t", "i", "t", "l", "e">>
CATEGORY == <<"c", "a", "t", "e", "g", "o", "r", "y">>
VIEWS == <<"v", "i", "e", "w", "s">>
LIKES == <<"l", "i", "k", "e", "s">>
COMMENTS == <<"c", "o", "m", "m", "e", "n", "t", "s">>
DURATION == <<"d", "u", "r", "a", "t", "i", "o", "n">>
SUBSCRIBERS == <<"s", "u", "b", "s", "c", "r", "i", "b", "e", "r", "s">>
ENGAGEMENT_RATE ==
  <<"e", "n", "g", "a", "g", "e", "m", "e", "n", "t", "_", "r", "a", "t", "e">>
DURATION_MINUTES ==
  <<"d", "u", "r", "a", "t", "i", "o", "n", "_", "m", "i", "n", "u", "t", "e", "s">>
LENGTH_CATEGORY ==
  <<"l", "e", "n", "g", "t", "h", "_", "c", "a", "t", "e", "g", "o", "r", "y">>

\* the synonym lists of the if/elif chain, in its order
Synonyms ==
  <<[canon |-> TITLE, names |-> {TITLE}],
    [canon |-> CATEGORY,
     names |-> {CATEGORY,
                <<"c", "h", "a", "n", "n", "e", "l", "_", "t", "i", "t", "l", "e">>,
                <<"c", "h", "a", "n", "n", "e", "l", "t", "i", "t", "l", "e">>}],
    [canon |-> VIEWS,
     names |-> {VIEWS,
                <<"v", "i", "e", "w", "_", "c", "o", "u", "n", "t">>,
                <<"v", "i", "e", "w", "c", "o", "u", "n", "t">>}],
    [canon |-> LIKES,
     names |-> {LIKES,
                <<"l", "i", "k", "e", "_", "c", "o", "u", "n", "t">>,
                <<"l", "i", "k", "e", "c", "o", "u", "n", "t">>}],
    [canon |-> COMMENTS,
     names |-> {COMMENTS,
                <<"c", "o", "m", "m", "e", "n", "t", "_", "c", "o", "u", "n", "t">>,
                <<"c", "o", "m", "m", "e", "n", "t", "c", "o", "u", "n", "t">>}],
    [canon |-> DURATION,
     names |-> {DURATION,
                <<"v", "i", "d", "e", "o", "_", "l", "e", "n", "g", "t", "h">>,
                <<"l", "e", "n", "g", "t", "h">>}],
    [canon |-> SUBSCRIBERS,
     names |-> {SUBSCRIBERS,
                <<"s", "u", "b", "s", "c", "r", "i", "b", "e", "r", "_", "c", "o", "u", "n", "t">>}]>>

required_cols == <<TITLE, CATEGORY, VIEWS, LIKES, COMMENTS, DURATION>>

UNKNOWN == <<"U", "n", "k", "n", "o", "w", "n">>

(***************************************************************************)
(* A DataFrame is [columns, rows]: the column labels in order (labels may  *)
(* repeat) and the rows, each [idx, cells] with one cell per column.       *)
(***************************************************************************)
ColIndices(df, name) == {i \in 1..Len(df.columns) : df.columns[i] = name}

HasColumn(df, name) == ColIndices(df, name) # {}

\* df[name] is a Series only when the label is unique; with a repeated label it
\* is a DataFrame
IsSeries(df, name) == Cardinality(ColIndices(df, name)) = 1

ColIndex(df, name) == CHOOSE i \in ColIndices(df, name) : TRUE

Column(df, name) == [r \in 1..Len(df.rows) |-> df.rows[r].cells[ColIndex(df, name)]]

\* df[name] = values: replaces the column, or appends it when the label is new
SetColumn(df, name, values) ==
  IF HasColumn(df, name)
  THEN [df EXCEPT !.rows =
          [r \in 1..Len(df.rows) |->
             [df.rows[r] EXCEPT !.cells[ColIndex(df, name)] = values[r]]]]
  ELSE [columns |-> Append(df.columns, name),
        rows |-> [r \in 1..Len(df.rows) |->
                    [df.rows[r] EXCEPT !.cells = Append(@, values[r])]]]

\* df[name] = scalar
SetScalar(df, name, cell) == SetColumn(df, name, [r \in 1..Len(df.rows) |-> cell])

\* df[df[name] > 0]: the rows kept in order, index labels preserved
RECURSIVE PositiveRows(_, _)
PositiveRows(rows, i) ==
  IF rows = <<>> THEN <<>>
  ELSE IF Head(rows).cells[i].v > 0
  THEN <<Head(rows)>> \o PositiveRows(Tail(rows), i)
  ELSE PositiveRows(Tail(rows), i)

(***************************************************************************)
(* Schema normalisation (load_data, the column_mapping loop and rename).   *)
(***************************************************************************)
\* the branch of the if/elif chain that col_lower takes: 0 when none
RECURSIVE SynonymBranch(_, _)
SynonymBranch(col_lower, k) ==
  IF k > Len(Synonyms) THEN 0
  ELSE IF col_lower \in Synonyms[k].names THEN k
  ELSE SynonymBranch(col_lower, k + 1)

Recognized(col) == SynonymBranch(Strip(Lower(col)), 1) # 0

\* column_mapping: raw label -> canonical label, for the recognised labels only
ColumnMapping(columns) ==
  [col \in {columns[i] : i \in {j \in 1..Len(columns) : Recognized(columns[j])}} |->
     Synonyms[SynonymBranch(Strip(Lower(col)), 1)].canon]

\* a variant that also lower-cases and trims the labels outside the mapping
RenameWithLowercasing(columns, column_mapping) ==
  [i \in 1..Len(columns) |->
     IF columns[i] \in DOMAIN column_mapping
     THEN column_mapping[columns[i]]
     ELSE Strip(Lower(columns[i]))]

\* df.rename(columns=column_mapping): labels outside the mapping are kept
RenameWith(columns, column_mapping) ==
  [i \in 1..Len(columns) |->
     IF columns[i] \in DOMAIN column_mapping
     THEN column_mapping[columns[i]]
     ELSE columns[i]]

Rename(columns) == RenameWith(columns, ColumnMapping(columns))

\* the loop over required_cols, from position k on
RECURSIVE EnsureRequired(_, _)
EnsureRequired(df, k) ==
  IF k > Len(required_cols) THEN df
  ELSE LET col == required_cols[k]
       IN IF HasColumn(df, col) THEN EnsureRequired(df, k + 1)
          ELSE IF col = CATEGORY
          THEN EnsureRequired(SetScalar(df, CATEGORY, StrCell(UNKNOWN)), k + 1)
          ELSE EnsureRequired(SetScalar(df, col, IntCell(0)), k + 1)

Normalize(df) == EnsureRequired([df EXCEPT !.columns = Rename(df.columns)], 1)

(***************************************************************************)
(* Field coercion: pd.to_numeric(errors='coerce').fillna(0).astype(int).   *)
(***************************************************************************)
NumericOf(f) ==
  IF ~f.ok THEN NaN
  ELSE IF f.finite THEN FloatCell(f.h)
  ELSE IF f.h = 0 THEN NaN
  ELSE IF f.h > 0 THEN InfCell ELSE NegInfCell

\* pd.to_numeric on one value; text that is no number becomes NaN
ToNumeric(cell) == IF cell.t # "str" THEN cell ELSE NumericOf(PyFloat(cell.s))

FillNa(cell, n) == IF cell.t = "nan" THEN IntCell(n) ELSE cell

\* astype(int) on one finite value
AsInt(cell) == IF cell.t = "float" THEN IntCell(TruncHundredths(cell.v)) ELSE cell

\* the exceptions pandas raises inside load_data and analyze_by_category
ErrNotSeries == "TypeError: arg must be a list, tuple, 1-d array, or Series"
ErrNonFinite == "ValueError: Cannot convert non-finite values (NA or inf) to integer"
ErrAmbiguous == "ValueError: The truth value of a Series is ambiguous"
ErrGrouper == "ValueError: Grouper for 'category' not 1-dimensional"

\* fillna(0).astype(int) of the column: [raised, values]
AsTypeInt(filled) ==
  IF \E r \in 1..Len(filled) : filled[r].t = "inf"
  THEN [raised |-> ErrNonFinite, values |-> <<>>]
  ELSE [raised |-> "", values |-> [r \in 1..Len(filled) |-> AsInt(filled[r])]]

\* the coerced column, or the exception: [raised, values]
Coerce(df, name) ==
  IF ~IsSeries(df, name)
  THEN [raised |-> ErrNotSeries, values |-> <<>>]
  ELSE AsTypeInt([r \in 1..Len(df.rows) |-> FillNa(ToNumeric(Column(df, name)[r]), 0)])

\* the outcomes of the calls in row order: the first exception ends the apply
ApplyOutcome(res) ==
  IF \E r \in 1..Len(res) : res[r].raised # ""
  THEN [raised |-> res[CHOOSE r \in 1..Len(res) :
                         /\ res[r].raised # ""
                         /\ \A q \in 1..(r - 1) : res[q].raised = ""].raised,
        values |-> <<>>]
  ELSE [raised |-> "", values |-> [r \in 1..Len(res) |-> IntCell(res[r].value)]]

\* df['duration'].apply(self._parse_duration)
ApplyParseDuration(df) ==
  IF ~IsSeries(df, DURATION)
  THEN [raised |-> ErrAmbiguous, values |-> <<>>]
  ELSE ApplyOutcome([r \in 1..Len(df.rows) |-> ParseDuration(Column(df, DURATION)[r])])

(***************************************************************************)
(* Derived metrics.                                                        *)
(***************************************************************************)
\* a variant that leaves the comments out
EngagementRateLikesOnly(likes, comments, views) ==
  FloatCell(RoundHalfEven(likes * 10000, views))

\* ((likes + comments) / views * 100).round(2), in hundredths
EngagementRate(likes, comments, views) ==
  FloatCell(RoundHalfEven((likes + comments) * 10000, views))

\* (duration / 60).round(2), in hundredths
DurationMinutes(seconds) == FloatCell(RoundHalfEven(seconds * 100, 60))

\* the bin edges in hundredths of a minute; the last bin has no upper edge
bins == <<0, 500, 1500, 3000>>

labels ==
  <<"Short (0-5 min)", "Medium (5-15 min)", "Long (15-30 min)", "Very Long (30+ min)">>

CatCell(label) == [t |-> "cat", v |-> 0, s |-> <<label>>]

\* a variant with the bins closed on the left and open on the right
InBinLeftClosed(x, i) == bins[i] <= x /\ (i = Len(bins) \/ x < bins[i + 1])

\* whether x lies in bin i: open on the left, closed on the right
InBin(x, i) == bins[i] < x /\ (i = Len(bins) \/ x <= bins[i + 1])

\* pd.cut on one value of duration_minutes (hundredths)
Cut(x) ==
  IF \E i \in 1..Len(bins) : InBin(x, i)
  THEN CatCell(labels[CHOOSE i \in 1..Len(bins) : InBin(x, i)])
  ELSE NaN

(***************************************************************************)
(* load_data as a function of the frame read_csv returns: [raised, df].    *)
(* The steps run in the code's order; the first exception ends the call.   *)
(***************************************************************************)
IntColumn(df, name) == [r \in 1..Len(df.rows) |-> Column(df, name)[r].v]

AddEngagementRate(df) ==
  SetColumn(df, ENGAGEMENT_RATE,
            [r \in 1..Len(df.rows) |->
               EngagementRate(IntColumn(df, LIKES)[r], IntColumn(df, COMMENTS)[r],
                              IntColumn(df, VIEWS)[r])])

AddDurationMinutes(df) ==
  SetColumn(df, DURATION_MINUTES,
            [r \in 1..Len(df.rows) |-> DurationMinutes(IntColumn(df, DURATION)[r])])

AddLengthCategory(df) ==
  SetColumn(df, LENGTH_CATEGORY,
            [r \in 1..Len(df.rows) |-> Cut(IntColumn(df, DURATION_MINUTES)[r])])

AddDerived(df) == AddLengthCategory(AddDurationMinutes(AddEngagementRate(df)))

\* df[df['views'] > 0]
FilterViews(df) == [df EXCEPT !.rows = PositiveRows(df.rows, ColIndex(df, VIEWS))]

LoadFailed(e) == [raised |-> e, df |-> [columns |-> <<>>, rows |-> <<>>]]

Loaded(df) == [raised |-> "", df |-> df]

WithColumn(df, name, c) ==
  IF c.raised # "" THEN LoadFailed(c.raised) ELSE Loaded(SetColumn(df, name, c.values))

CoerceInto(res, name) ==
  IF res.raised # "" THEN res ELSE WithColumn(res.df, name, Coerce(res.df, name))

ParseInto(res) ==
  IF res.raised # "" THEN res
  ELSE WithColumn(res.df, DURATION, ApplyParseDuration(res.df))

Derive(res) == IF res.raised # "" THEN res ELSE Loaded(AddDerived(FilterViews(res.df)))

LoadDataResult(csv) ==
  Derive(ParseInto(CoerceInto(CoerceInto(CoerceInto(Loaded(Normalize(csv)), VIEWS),
                                         LIKES),
                              COMMENTS)))

(***************************************************************************)
(* Aggregation: groupby(key).agg(count / sum / mean).round(0).             *)
(***************************************************************************)
RECURSIVE SumOver(_, _)
SumOver(values, rs) ==
  IF rs = {} THEN 0
  ELSE LET r == CHOOSE x \in rs : TRUE
       IN values[r] + SumOver(values, rs \ {r})

\* one row of the aggregate table, for the rows rs of the group
StatsRow(df, key, rs) ==
  LET n == Cardinality(rs)
  IN [key |-> key,
      video_count |-> Cardinality({r \in rs : Column(df, TITLE)[r].t # "nan"}),
      total_views |-> SumOver(IntColumn(df, VIEWS), rs),
      avg_views |-> RoundHalfEven(SumOver(IntColumn(df, VIEWS), rs), n),
      total_likes |-> SumOver(IntColumn(df, LIKES), rs),
      avg_likes |-> RoundHalfEven(SumOver(IntColumn(df, LIKES), rs), n),
      total_comments |-> SumOver(IntColumn(df, COMMENTS), rs),
      avg_comments |-> RoundHalfEven(SumOver(IntColumn(df, COMMENTS), rs), n),
      avg_engagement_rate |->
        RoundHalfEven(SumOver(IntColumn(df, ENGAGEMENT_RATE), rs), 100 * n)]

\* the rows of each group; rows whose key is missing belong to no group
GroupRows(df, name, key) == {r \in 1..Len(df.rows) : Column(df, name)[r] = key}

GroupKeys(df, name) ==
  {Column(df, name)[r] : r \in 1..Len(df.rows)} \ {NaN}

\* the orders sort_values('avg_views', ascending=False) may leave the groups in
CategoryTables(df) ==
  LET keys == GroupKeys(df, CATEGORY)
      n == Cardinality(keys)
      row(k) == StatsRow(df, k, GroupRows(df, CATEGORY, k))
  IN {[i \in 1..n |-> row(f[i])] :
        f \in {g \in [1..n -> keys] :
                 /\ \A i, j \in 1..n : i # j => g[i] # g[j]
                 /\ \A i, j \in 1..n : i < j => row(g[i]).avg_views >= row(g[j]).avg_views}}

\* the observed buckets, in the fixed order of the labels
RECURSIVE LengthTable(_, _)
LengthTable(df, k) ==
  IF k > Len(labels) THEN <<>>
  ELSE LET rs == GroupRows(df, LENGTH_CATEGORY, CatCell(labels[k]))
       IN (IF rs = {} THEN <<>> ELSE <<StatsRow(df, CatCell(labels[k]), rs)>>)
            \o LengthTable(df, k + 1)

(***************************************************************************)
(* Input frames: what read_csv returns for csv_file.  Every frame has at   *)
(* least one row, distinct raw labels, and numeric text without            *)
(* surrounding whitespace.                                                 *)
(***************************************************************************)
MakeFrame(columns, cellrows) ==
  [columns |-> columns,
   rows |-> [r \in 1..Len(cellrows) |-> [idx |-> r - 1, cells |-> cellrows[r]]]]

RawNames ==
  <<<<"T", "i", "t", "l", "e">>,
    <<"c", "a", "t", "e", "g", "o", "r", "y">>,
    <<"C", "h", "a", "n", "n", "e", "l", "_", "T", "i", "t", "l", "e">>,
    <<"V", "i", "e", "w", "s", " ">>,
    <<"v", "i", "e", "w", "_", "c", "o", "u", "n", "t">>,
    <<"V", "I", "E", "W", "C", "O", "U", "N", "T">>,
    <<" ", "L", "i", "k", "e", "s">>,
    <<"c", "o", "m", "m", "e", "n", "t", "s">>,
    <<"d", "u", "r", "a", "t", "i", "o", "n">>,
    <<"L", "e", "n", "g", "t", "h">>,
    <<"s", "u", "b", "s", "c", "r", "i", "b", "e", "r", "s">>,
    <<"F", "o", "o", " ">>>>

S_0004 == <<"0", "0", ":", "0", "4", ":", "0", "0">>
S_PT20M == <<"P", "T", "2", "0", "M">>

\* two sample rows, one cell per raw name
SampleRows ==
  <<<<StrCell(<<"a">>), StrCell(<<"X">>), StrCell(<<"c", "h">>), IntCell(100), IntCell(100),
      IntCell(100), IntCell(10), IntCell(5), StrCell(S_0004), IntCell(240),
      IntCell(1000), StrCell(<<"z">>)>>,
    <<StrCell(<<"b">>), StrCell(<<"Y">>), StrCell(<<"c", "h">>), IntCell(50), IntCell(50),
      IntCell(50), IntCell(5), IntCell(0), StrCell(S_PT20M), IntCell(1200),
      IntCell(1000), NaN>>>>

RECURSIVE Pick(_, _, _)
Pick(row, S, k) ==
  IF k > Len(row) THEN <<>>
  ELSE (IF k \in S THEN <<row[k]>> ELSE <<>>) \o Pick(row, S, k + 1)

\* the frames over a choice of at most MaxCols raw columns
HeaderFrames ==
  {MakeFrame(Pick(RawNames, S, 1), [r \in 1..Len(SampleRows) |-> Pick(SampleRows[r], S, 1)]) :
     S \in {X \in SUBSET (1..Len(RawNames)) : Cardinality(X) \in 1..MaxCols}}

\* raw rows under the columns title, category, views, likes, comments, duration
RowSet ==
  {<<StrCell(<<"a">>), StrCell(<<"X">>), IntCell(100), IntCell(10), IntCell(5), StrCell(S_0004)>>,
   <<StrCell(<<"b">>), StrCell(<<"X">>), IntCell(0), IntCell(1), IntCell(1), IntCell(60)>>,
   <<StrCell(<<"c">>), StrCell(<<"Y">>), IntCell(50), IntCell(5), IntCell(0), StrCell(S_PT20M)>>,
   <<StrCell(<<"d">>), StrCell(<<"Y">>), StrCell(<<"a", "b", "c">>), NaN, StrCell(<<"7">>),
     IntCell(0)>>,
   <<NaN, NaN, IntCell(3), IntCell(1), IntCell(0), StrCell(<<"1", ":", "x">>)>>,
   <<StrCell(<<"e">>), StrCell(<<"X">>), StrCell(<<"3">>), IntCell(1), IntCell(0),
     StrCell(<<"0">>)>>,
   <<StrCell(<<"f">>), StrCell(<<"Y">>), FloatCell(790), IntCell(0 - 5),
     StrCell(<<"2", ".", "9">>), StrCell(<<"4", "0", ":", "0", "0">>)>>,
   <<StrCell(<<"g">>), StrCell(<<"X">>), InfCell, IntCell(1), IntCell(1), IntCell(30)>>}

RowFrames == {MakeFrame(required_cols, rows) : rows \in SeqsUpTo(RowSet, 1, MaxRows)}

\* three rows under views, likes, comments, duration
ExampleFrame ==
  MakeFrame(<<VIEWS, LIKES, COMMENTS, DURATION>>,
            <<<<IntCell(100), IntCell(10), IntCell(5), StrCell(S_0004)>>,
              <<IntCell(0), IntCell(1), IntCell(1), IntCell(60)>>,
              <<IntCell(50), IntCell(5), IntCell(0), StrCell(S_PT20M)>>>>)

CsvInputs == HeaderFrames \cup RowFrames \cup {ExampleFrame}

(***************************************************************************)
(* State.                                                                  *)
(***************************************************************************)
VARIABLES
  csv_file,        \* the frame read_csv returns for self.csv_file
  data,            \* self.data: None, or the cleaned frame
  category_stats,  \* self.category_stats: None, or the aggregate table
  length_stats,    \* self.length_stats: None, or the aggregate table
  last,            \* the last call: its name, how it ended, whether it printed or drew
  parse_call,      \* one call of _parse_duration: its argument and its outcome
  derive           \* one record through the derived-metric calculator

vars == <<csv_file, data, category_stats, length_stats, last, parse_call, derive>>

NoneFrame == [isNone |-> TRUE, columns |-> <<>>, rows |-> <<>>]
SomeFrame(df) == [isNone |-> FALSE, columns |-> df.columns, rows |-> df.rows]
NoneTable == [isNone |-> TRUE, table |-> <<>>]
SomeTable(tbl) == [isNone |-> FALSE, table |-> tbl]

NoCall == [op |-> "", result |-> "", printed |-> FALSE]
Call(op, result, printed) == [op |-> op, result |-> result, printed |-> printed]

NoParse == [duration |-> NaN, pending |-> FALSE, raised |-> "", value |-> 0]
NoDerive == [pc |-> "idle", from |-> "", seconds |-> 0, minutes |-> 0, bucket |-> NaN]

\* the messages of the sequencing guards
ErrNotLoaded == "ValueError: Data not loaded. Call load_data() first."
ErrNoCategory == "ValueError: Category analysis not done. Call analyze_by_category() first."
ErrNoLength == "ValueError: Length analysis not done. Call analyze_by_length() first."
ErrIncomplete ==
  "ValueError: Complete analysis not done. Run analyze_by_category() and analyze_by_length() first."

(***************************************************************************)
(* The methods of YouTubeAnalyzer.                                         *)
(***************************************************************************)
Init ==
  /\ csv_file \in CsvInputs
  /\ data = NoneFrame
  /\ category_stats = NoneTable
  /\ length_stats = NoneTable
  /\ last = NoCall
  /\ parse_call = NoParse
  /\ derive = NoDerive

LoadOutcome(res) ==
  IF res.raised = ""
  THEN /\ data' = SomeFrame(res.df)
       /\ last' = Call("load_data", "ok", TRUE)
  ELSE /\ UNCHANGED data
       /\ last' = Call("load_data", res.raised, FALSE)

load_data ==
  /\ LoadOutcome(LoadDataResult(csv_file))
  /\ UNCHANGED <<csv_file, category_stats, length_stats, parse_call, derive>>

analyze_by_category ==
  /\ IF data.isNone
     THEN /\ last' = Call("analyze_by_category", ErrNotLoaded, FALSE)
          /\ UNCHANGED category_stats
     ELSE IF ~IsSeries(data, CATEGORY)
     THEN \* groupby: the grouper is not 1-dimensional
          /\ last' = Call("analyze_by_category", ErrGrouper, FALSE)
          /\ UNCHANGED category_stats
     ELSE /\ \E tbl \in CategoryTables(data) : category_stats' = SomeTable(tbl)
          /\ last' = Call("analyze_by_category", "ok", TRUE)
  /\ UNCHANGED <<csv_file, data, length_stats, parse_call, derive>>

\* a variant that keeps only the bucketed records in the record set
analyze_by_length_dropping ==
  /\ IF data.isNone
     THEN /\ last' = Call("analyze_by_length", ErrNotLoaded, FALSE)
          /\ UNCHANGED <<data, length_stats>>
     ELSE /\ length_stats' = SomeTable(LengthTable(data, 1))
          /\ data' = [data EXCEPT !.rows = <<>>]
          /\ last' = Call("analyze_by_length", "ok", TRUE)
  /\ UNCHANGED <<csv_file, category_stats, parse_call, derive>>

analyze_by_length ==
  /\ IF data.isNone
     THEN /\ last' = Call("analyze_by_length", ErrNotLoaded, FALSE)
          /\ UNCHANGED length_stats
     ELSE /\ length_stats' = SomeTable(LengthTable(data, 1))
          /\ last' = Call("analyze_by_length", "ok", TRUE)
  /\ UNCHANGED <<csv_file, data, category_stats, parse_call, derive>>

display_summary ==
  /\ last' = IF data.isNone
             THEN Call("display_summary", ErrNotLoaded, FALSE)
             ELSE Call("display_summary", "ok", TRUE)
  /\ UNCHANGED <<csv_file, data, category_stats, length_stats, parse_call, derive>>

ErrArgmax == "ValueError: attempt to get argmax of an empty sequence"

\* what drawing a table yields: an empty table may make the plotting library raise
PlotResults(stats) == IF stats.table = <<>> THEN {"ok", "IndexError"} ELSE {"ok"}

\* a variant whose guard looks at the record set
plot_category_performance_guarding_data ==
  /\ IF data.isNone
     THEN last' = Call("plot_category_performance", ErrNoCategory, FALSE)
     ELSE \E r \in PlotResults(category_stats) :
            last' = Call("plot_category_performance", r, TRUE)
  /\ UNCHANGED <<csv_file, data, category_stats, length_stats, parse_call, derive>>

plot_category_performance ==
  /\ IF category_stats.isNone
     THEN last' = Call("plot_category_performance", ErrNoCategory, FALSE)
     ELSE \E r \in PlotResults(category_stats) :
            last' = Call("plot_category_performance", r, TRUE)
  /\ UNCHANGED <<csv_file, data, category_stats, length_stats, parse_call, derive>>

plot_length_performance ==
  /\ IF length_stats.isNone
     THEN last' = Call("plot_length_performance", ErrNoLength, FALSE)
     ELSE \E r \in PlotResults(length_stats) :
            last' = Call("plot_length_performance", r, TRUE)
  /\ UNCHANGED <<csv_file, data, category_stats, length_stats, parse_call, derive>>

generate_insights ==
  /\ last' = IF category_stats.isNone \/ length_stats.isNone
             THEN Call("generate_insights", ErrIncomplete, FALSE)
             ELSE IF category_stats.table = <<>>
             THEN \* category_stats.index[0]
                  Call("generate_insights", "IndexError", TRUE)
             ELSE IF length_stats.table = <<>>
             THEN \* idxmax of an empty column
                  Call("generate_insights", ErrArgmax, TRUE)
             ELSE Call("generate_insights", "ok", TRUE)
  /\ UNCHANGED <<csv_file, data, category_stats, length_stats, parse_call, derive>>

Next ==
  \/ load_data
  \/ analyze_by_category
  \/ analyze_by_length
  \/ display_summary
  \/ plot_category_performance
  \/ plot_length_performance
  \/ generate_insights

Spec == Init /\ [][Next]_vars

(***************************************************************************)
(* SpecParse: _parse_duration applied to one argument.                     *)
(***************************************************************************)
InitParse ==
  /\ parse_call \in {[duration |-> d, pending |-> TRUE, raised |-> "", value |-> 0] :
                       d \in DurationInputs}
  /\ csv_file = ExampleFrame
  /\ data = NoneFrame
  /\ category_stats = NoneTable
  /\ length_stats = NoneTable
  /\ last = NoCall
  /\ derive = NoDerive

parse_duration ==
  /\ parse_call.pending
  /\ parse_call' = [duration |-> parse_call.duration, pending |-> FALSE]
                     @@ ParseDuration(parse_call.duration)
  /\ UNCHANGED <<csv_file, data, category_stats, length_stats, last, derive>>

NextParse == parse_duration

SpecParse == InitParse /\ [][NextParse]_vars

(***************************************************************************)
(* SpecDerive: duration_minutes and length_category of one record, from    *)
(* its duration in seconds or from a given duration_minutes.               *)
(***************************************************************************)
InitDerive ==
  /\ derive \in
       {[pc |-> "seconds", from |-> "seconds", seconds |-> s, minutes |-> 0, bucket |-> NaN] :
          s \in (0 - 2)..MaxSeconds}
       \cup
       {[pc |-> "minutes", from |-> "minutes", seconds |-> 0, minutes |-> m, bucket |-> NaN] :
          m \in (0 - 2)..MaxMinutes100}
  /\ csv_file = ExampleFrame
  /\ data = NoneFrame
  /\ category_stats = NoneTable
  /\ length_stats = NoneTable
  /\ last = NoCall
  /\ parse_call = NoParse

duration_minutes ==
  /\ derive.pc = "seconds"
  /\ derive' = [derive EXCEPT !.pc = "minutes", !.minutes = DurationMinutes(derive.seconds).v]
  /\ UNCHANGED <<csv_file, data, category_stats, length_stats, last, parse_call>>

length_category ==
  /\ derive.pc = "minutes"
  /\ derive' = [derive EXCEPT !.pc = "done", !.bucket = Cut(derive.minutes)]
  /\ UNCHANGED <<csv_file, data, category_stats, length_stats, last, parse_call>>

NextDerive == duration_minutes \/ length_category

SpecDerive == InitDerive /\ [][NextDerive]_vars

(***************************************************************************)
(* Properties.                                                             *)
(***************************************************************************)
Str_010203 == <<"0", "1", ":", "0", "2", ":", "0", "3">>
Str_0203 == <<"0", "2", ":", "0", "3">>
Str_PT1H2M3S == <<"P", "T", "1", "H", "2", "M", "3", "S">>
Str_PT5M == <<"P", "T", "5", "M">>
Str_PT == <<"P", "T">>

HasColon(s) == \E i \in 1..Len(s) : s[i] = ":"
IsIntLiteral(p) == PyInt(p).ok
IntegerParts(s) == \A i \in 1..Len(Split(s, ":")) : IsIntLiteral(Split(s, ":")[i])
PartValue(s, i) == PyInt(Split(s, ":")[i]).v
IsPlainNumber(s) == PyFloat(s).ok /\ PyFloat(s).finite
PTSeconds(s) ==
  ReMatchPT(s).hours * 3600 + ReMatchPT(s).minutes * 60 + ReMatchPT(s).seconds

ParseFinished == ~parse_call.pending
ParseOutcome == [raised |-> parse_call.raised, value |-> parse_call.value]

\* a missing value, a finite number or a string, with no negative component
NonNegativeInput(d) ==
  \/ d.t = "nan"
  \/ d.t \in {"int", "float"} /\ d.v >= 0
  \/ d.t = "str" /\ \A i \in 1..Len(d.s) : d.s[i] # "-"

\* C1: _parse_duration is total: for every input whose components are
\* non-negative it returns an integer >= 0 and raises nothing; a colon-delimited
\* string with a part that is no integer literal yields 0.
C1_ParseDurationTotal ==
  (ParseFinished /\ NonNegativeInput(parse_call.duration)) =>
      /\ parse_call.raised = ""
      /\ parse_call.value >= 0
      /\ (/\ parse_call.duration.t = "str"
          /\ HasColon(Strip(parse_call.duration.s))
          /\ ~IntegerParts(Strip(parse_call.duration.s))) => parse_call.value = 0

\* the seconds the claim C2 gives a trimmed string, in its priority order
ClaimedString(s) ==
  IF HasColon(s) /\ Len(Split(s, ":")) = 3 /\ IntegerParts(s)
  THEN PartValue(s, 1) * 3600 + PartValue(s, 2) * 60 + PartValue(s, 3)
  ELSE IF HasColon(s) /\ Len(Split(s, ":")) = 2 /\ IntegerParts(s)
  THEN PartValue(s, 1) * 60 + PartValue(s, 2)
  ELSE IF ReMatchPT(s).matched THEN PTSeconds(s)
  ELSE IF IsPlainNumber(s) THEN PyFloat(s).v
  ELSE 0

\* C2: for every input the call returns the canonical seconds, in priority
\* order: null gives 0, a number its truncation, a string of three integer parts
\* h*3600 + m*60 + s, of two integer parts m*60 + s, a PT token the sum of its
\* components, a plain numeric string its truncation and anything else 0; the
\* examples of the claim have the values it names.
C2_CanonicalSeconds ==
  ParseFinished =>
    LET d == parse_call.duration
    IN /\ d.t = "nan" => ParseOutcome = Returns(0)
       /\ d.t = "int" => ParseOutcome = Returns(d.v)
       /\ d.t = "float" => ParseOutcome = Returns(TruncHundredths(d.v))
       /\ d.t = "str" => ParseOutcome = Returns(ClaimedString(Strip(d.s)))
       /\ d = StrCell(Str_010203) => ParseOutcome = Returns(3723)
       /\ d = StrCell(Str_0203) => ParseOutcome = Returns(123)
       /\ d = StrCell(Str_PT1H2M3S) => ParseOutcome = Returns(3723)
       /\ d = StrCell(Str_PT5M) => ParseOutcome = Returns(300)
       /\ d = StrCell(Str_PT) => ParseOutcome = Returns(0)
       /\ d = IntCell(90) => ParseOutcome = Returns(90)

SequencingErrors == {ErrNotLoaded, ErrNoCategory, ErrNoLength, ErrIncomplete}

Methods ==
  {"load_data", "analyze_by_category", "analyze_by_length", "display_summary",
   "plot_category_performance", "plot_length_performance", "generate_insights"}

\* whether the step that method op needs has completed
Prerequisite(op) ==
  CASE op \in {"analyze_by_category", "analyze_by_length", "display_summary"} -> ~data.isNone
    [] op = "plot_category_performance" -> ~category_stats.isNone
    [] op = "plot_length_performance" -> ~length_stats.isNone
    [] op = "generate_insights" -> ~category_stats.isNone /\ ~length_stats.isNone
    [] OTHER -> TRUE

\* the error that names the missing step of method op
MissingStep(op) ==
  CASE op \in {"analyze_by_category", "analyze_by_length", "display_summary"} -> ErrNotLoaded
    [] op = "plot_category_performance" -> ErrNoCategory
    [] op = "plot_length_performance" -> ErrNoLength
    [] op = "generate_insights" -> ErrIncomplete
    [] OTHER -> ""

\* C3: in every step, a method whose prerequisite step has not completed ends
\* with the error naming that step, prints and draws nothing and changes no
\* field; a method whose prerequisite has completed never ends with a
\* sequencing error.
C3_Sequencing ==
  [][\A op \in Methods :
       last'.op = op =>
         IF Prerequisite(op)
         THEN last'.result \notin SequencingErrors
         ELSE /\ last'.result = MissingStep(op)
              /\ ~last'.printed
              /\ UNCHANGED <<data, category_stats, length_stats>>]_vars

\* plot_category_performance has failed for want of category_stats although the
\* data is loaded
C3_Witness ==
  /\ last = Call("plot_category_performance", ErrNoCategory, FALSE)
  /\ ~data.isNone
  /\ category_stats.isNone

Value(row, df, name) == row.cells[ColIndex(df, name)].v

\* the views of the raw rows after coercion, by position
CoercedViews == Coerce(Normalize(csv_file), VIEWS).values

\* C4, as stated: every retained record has views > 0 and an engagement_rate
\* equal to (likes + comments) / views * 100, and no record whose coerced views
\* is 0 is retained.
C4_AsStated ==
  ~data.isNone =>
    /\ \A r \in 1..Len(data.rows) :
         LET row == data.rows[r]
         IN /\ Value(row, data, VIEWS) > 0
            /\ row.cells[ColIndex(data, ENGAGEMENT_RATE)].t = "float"
            /\ Value(row, data, ENGAGEMENT_RATE) * Value(row, data, VIEWS)
                 = (Value(row, data, LIKES) + Value(row, data, COMMENTS)) * 10000
    /\ \A i \in 1..Len(csv_file.rows) :
         CoercedViews[i].v = 0 => \A r \in 1..Len(data.rows) : data.rows[r].idx # i - 1

\* C4, amended: every retained record has views > 0 and an engagement_rate that
\* is (likes + comments) / views * 100 rounded to 2 decimals (within half a
\* hundredth of the quotient), and no record whose coerced views is 0 is retained.
C4_RetainedRecords ==
  ~data.isNone =>
    LET coerced == CoercedViews
    IN /\ \A r \in 1..Len(data.rows) :
            LET row == data.rows[r]
                exact == (Value(row, data, LIKES) + Value(row, data, COMMENTS)) * 10000
                scaled == Value(row, data, ENGAGEMENT_RATE) * Value(row, data, VIEWS)
            IN /\ Value(row, data, VIEWS) > 0
               /\ Value(row, data, VIEWS) = coerced[row.idx + 1].v
               /\ row.cells[ColIndex(data, ENGAGEMENT_RATE)].t = "float"
               /\ 2 * (scaled - exact) <= Value(row, data, VIEWS)
               /\ 2 * (exact - scaled) <= Value(row, data, VIEWS)
       /\ \A i \in 1..Len(csv_file.rows) :
            coerced[i].v = 0 => \A r \in 1..Len(data.rows) : data.rows[r].idx # i - 1

\* a record with an inexact quotient is retained and another record was dropped
C4_Witness ==
  /\ ~data.isNone
  /\ Len(data.rows) < Len(csv_file.rows)
  /\ \E r \in 1..Len(data.rows) :
       /\ Value(data.rows[r], data, VIEWS) = 3
       /\ Value(data.rows[r], data, ENGAGEMENT_RATE) = 3333

CanonicalNames == {Synonyms[k].canon : k \in 1..Len(Synonyms)}

Occurrences(columns, name) == Cardinality({i \in 1..Len(columns) : columns[i] = name})

\* C5: normalising the labels again changes nothing, and for every set of raw
\* labels the schema has one column per canonical name: load_data does not
\* fail over a repeated label and the loaded data holds each required name once
\* and no canonical name twice.
C5_CanonicalSchema ==
  /\ Rename(Rename(csv_file.columns)) = Rename(csv_file.columns)
  /\ last.op = "load_data" => last.result \notin {ErrNotSeries, ErrAmbiguous}
  /\ ~data.isNone =>
       /\ \A k \in 1..Len(required_cols) : Occurrences(data.columns, required_cols[k]) = 1
       /\ \A c \in CanonicalNames : Occurrences(data.columns, c) <= 1

RawCell(row, name) ==
  IF \E i \in 1..Len(csv_file.columns) : Rename(csv_file.columns)[i] = name
  THEN csv_file.rows[row.idx + 1].cells[
         CHOOSE i \in 1..Len(csv_file.columns) : Rename(csv_file.columns)[i] = name]
  ELSE IntCell(0)

\* C7: the coercion of views, likes and comments lets no exception out of
\* load_data and leaves an integer in every cell, non-negative whenever the raw
\* value is not negative.
C7_CoercionTotal ==
  /\ last.op = "load_data" => last.result # ErrNonFinite
  /\ ~data.isNone =>
       \A r \in 1..Len(data.rows) : \A name \in {VIEWS, LIKES, COMMENTS} :
         /\ data.rows[r].cells[ColIndex(data, name)].t = "int"
         /\ NonNegativeInput(RawCell(data.rows[r], name)) =>
              Value(data.rows[r], data, name) >= 0

Short == CatCell("Short (0-5 min)")
Medium == CatCell("Medium (5-15 min)")
Long == CatCell("Long (15-30 min)")
VeryLong == CatCell("Very Long (30+ min)")

\* C8: the bucket of duration_minutes m is Short for 0 < m <= 5, Medium for
\* 5 < m <= 15, Long for 15 < m <= 30, Very Long for m > 30 and missing for
\* m <= 0 (so 5.0 is Short, 5.01 Medium, 30.0 Long, 30.01 Very Long); a record
\* with a duration of more than 0 seconds gets a bucket.
C8_LengthCategory ==
  derive.pc = "done" =>
    /\ derive.minutes <= 0 => derive.bucket = NaN
    /\ (0 < derive.minutes /\ derive.minutes <= 500) => derive.bucket = Short
    /\ (500 < derive.minutes /\ derive.minutes <= 1500) => derive.bucket = Medium
    /\ (1500 < derive.minutes /\ derive.minutes <= 3000) => derive.bucket = Long
    /\ 3000 < derive.minutes => derive.bucket = VeryLong
    /\ (derive.from = "seconds" /\ derive.seconds > 0) =>
         derive.bucket \in {Short, Medium, Long, VeryLong}

\* 5.01 minutes has been put in the Medium bucket
C8_Witness ==
  /\ derive.pc = "done"
  /\ derive.minutes = 501
  /\ derive.bucket = Medium

ExampleLoaded == csv_file = ExampleFrame /\ ~data.isNone

ColumnValues(df, name) == [r \in 1..Len(df.rows) |-> df.rows[r].cells[ColIndex(df, name)]]

\* C9, as stated: the three example rows load as 2 records with engagement
\* rates 15.0 and 10.0 and length categories Short and Medium.
C9_AsStated ==
  ExampleLoaded =>
    /\ [r \in 1..Len(data.rows) |-> data.rows[r].idx] = <<0, 2>>
    /\ ColumnValues(data, ENGAGEMENT_RATE) = <<FloatCell(1500), FloatCell(1000)>>
    /\ ColumnValues(data, LENGTH_CATEGORY) = <<Short, Medium>>

\* C9, amended: the three example rows load as 2 records (the first and the
\* third) with engagement rates 15.0 and 10.0 and length categories Short and
\* Long: PT20M is 20 minutes.
C9_EndToEnd ==
  ExampleLoaded =>
    /\ [r \in 1..Len(data.rows) |-> data.rows[r].idx] = <<0, 2>>
    /\ ColumnValues(data, ENGAGEMENT_RATE) = <<FloatCell(1500), FloatCell(1000)>>
    /\ ColumnValues(data, DURATION) = <<IntCell(240), IntCell(1200)>>
    /\ ColumnValues(data, LENGTH_CATEGORY) = <<Short, Long>>

\* the example file has been loaded
C9_Witness == ExampleLoaded /\ last = Call("load_data", "ok", TRUE)

\* C10: in every step, only load_data changes data, only analyze_by_category
\* changes category_stats, only analyze_by_length changes length_stats, and a
\* step that ends with a sequencing error changes none of the three.
C10_Frame ==
  [][/\ last'.op # "load_data" => data' = data
     /\ last'.op # "analyze_by_category" => category_stats' = category_stats
     /\ last'.op # "analyze_by_length" => length_stats' = length_stats
     /\ last'.result \in SequencingErrors =>
          UNCHANGED <<data, category_stats, length_stats>>]_vars

\* analyze_by_length has completed on retained records after the category
\* analysis
C10_Witness ==
  /\ last = Call("analyze_by_length", "ok", TRUE)
  /\ ~data.isNone /\ data.rows # <<>>
  /\ ~category_stats.isNone
  /\ length_stats.table # <<>>

=============================================================================
